---- MODULE Spec2Model ----
(***************************************************************************)
(* Strato-Query: the request-delivery core of strato_query/api_query.py.   *)
(*                                                                         *)
(* The program is single threaded.  A caller invokes one public operation  *)
(* at a time (SDAPIQuery.submit_query / query_api_json / query_api_df /    *)
(* query_api_multiple, SDJobRunner.create_job / status /                   *)
(* download_job_to_dataframe / load_df_from_job_pipeline).  Every blocking *)
(* network call (requests.post) is one step whose outcome is chosen by the *)
(* environment; every time.sleep is recorded in the event log.             *)
(*                                                                         *)
(* Python values are modelled as records [t |-> type name, v |-> text] so  *)
(* that isinstance, "is None" and truthiness are computed as Python does.  *)
(* Optional numbers are sequences of length 0 (None) or 1.                 *)
(* Durations are in milliseconds.                                          *)
(***************************************************************************)
EXTENDS Integers, Sequences, FiniteSets, TLC

\* ------------------------------------------------------------------ bounds
\* Largest number of keys of a batch mapping.
MaxKeys == 3
\* Largest chunksize a caller passes to query_api_multiple.
MaxChunk == 3

\* ------------------------------------------------------- program constants
\* strato_query.constants.MAX_RETRIES
MAX_RETRIES == 3
\* default chunksize of query_api_multiple
DEFAULT_CHUNKSIZE == 500
\* range(100) of load_df_from_job_pipeline
POLL_BUDGET == 100
\* time.sleep(10) between two status polls, in ms
POLL_DELAY_MS == 10000
\* base of time.sleep(0.5 * (1 + retry_num)), in ms
BACKOFF_BASE_MS == 500

API_URL == "API_URL"
JOBS_CREATE_URL == "https://api.stratodem.com/jobs/create"
JOBS_STATUS_URL == "https://api.stratodem.com/jobs/status"
JOBS_DOWNLOAD_URL == "https://api.stratodem.com/jobs/download"

\* The bearer token returned by get_api_token() and the mask that replaces it.
TOKEN == "secret-token"
get_api_token == TOKEN
MASK == "**********"

MSG_520 ==
  "Query has timed out. The most likely cause is a query calling for too much data at once. Please check the filters and avoid calling for unnecessary data."
MSG_RETRIES ==
  "Query has timed out. The most likely cause is a query calling for too much data at once. Please check the filters and avoid calling for unnecessary data. Also possible are that the timeout value may have been set too low, or a network error could be preventing proper communication with the API server."
MSG_STATUS == "Failed to determine job status"
MSG_DOWNLOAD == "Failed to download file"
MSG_JOB_FAILED == "Job failed"
MSG_NEVER == "Job never completed successfully"
MSG_NEED_ONE == "Job requires either \"geolevel\" or \"portfolio_id\""

\* ------------------------------------------------------------ Python values
PyNone == [t |-> "NoneType", v |-> ""]
PyStr(s) == [t |-> "str", v |-> s]
PyInt(s) == [t |-> "int", v |-> s]
PyQuery(s) == [t |-> "APIQueryParams", v |-> s]
PyList(items) == [t |-> "list", v |-> "", items |-> items]

IsNone(x) == x.t = "NoneType"
\* bool(x) for the values above
Truthy(x) ==
  CASE x.t = "NoneType" -> FALSE
    [] x.t = "str" -> x.v # ""
    [] x.t = "int" -> x.v # "0"
    [] x.t = "list" -> Len(x.items) > 0
    [] OTHER -> TRUE

None == <<>>
Some(x) == <<x>>

Min(a, b) == IF a < b THEN a ELSE b

\* query_params.to_api_struct(): the JSON-compatible form of one query
to_api_struct(q) == [struct |-> q.v]

\* ---------------------------------------------------------------- mappings
\* A Python dict is a sequence of <<key, value>> pairs with distinct keys, in
\* insertion (= iteration) order.
KeyUniverse == {"a", "b", "c", "d"}

RECURSIVE InjectiveSeqs(_, _)
InjectiveSeqs(S, n) ==
  IF n = 0 THEN {<<>>}
  ELSE LET shorter == InjectiveSeqs(S, n - 1)
       IN shorter \cup
          {Append(s, x) : <<s, x>> \in
             {p \in shorter \X S : Len(p[1]) = n - 1
                                   /\ \A i \in 1..Len(p[1]) : p[1][i] # p[2]}}

Keys(d) == [i \in 1..Len(d) |-> d[i][1]]
KeySet(d) == {d[i][1] : i \in 1..Len(d)}
Lookup(d, k) == (CHOOSE i \in 1..Len(d) : d[i][1] = k)
Get(d, k) == d[Lookup(d, k)][2]
\* d[k] = v on a dict: overwrite in place, or append a new key
DictSet(d, k, v) ==
  IF k \in KeySet(d) THEN [d EXCEPT ![Lookup(d, k)] = <<k, v>>]
  ELSE Append(d, <<k, v>>)
RECURSIVE DictUpdate(_, _)
DictUpdate(d, items) ==
  IF items = <<>> THEN d
  ELSE DictUpdate(DictSet(d, items[1][1], items[1][2]), Tail(items))


PyDict(items) == [t |-> "dict", v |-> "", items |-> items]

\* The keyed query mappings a caller passes: every ordering of up to MaxKeys
\* distinct keys, each key mapped to its own APIQueryParams object.
QueryDicts ==
  {[i \in 1..Len(s) |-> <<s[i], PyQuery(s[i])>>] :
     s \in InjectiveSeqs(KeyUniverse, MaxKeys)}
\* A mapping one of whose values is not an APIQueryParams.
BadDict == << <<"a", PyStr("not a query")>> >>

\* ------------------------------------------------------- results and errors
NoResult == [kind |-> "none", val |-> <<>>]
Result(kind, val) == [kind |-> kind, val |-> <<val>>]

NoExc == [type |-> "", msg |-> "", status |-> <<>>, body |-> <<>>, ctx |-> <<>>]
\* an exception and its args: a message, a status code, a response body and
\* the (redacted) request, each present or absent
Exc(type, msg, status, body, ctx) ==
  [type |-> type, msg |-> msg, status |-> status, body |-> body, ctx |-> ctx]
AssertionError == Exc("AssertionError", "", <<>>, <<>>, <<>>)
UsageErrors == {"AssertionError", "ValueError"}

\* ------------------------------------------------------------ the event log
\* a POST: its URL, the request sent and the outcome received
PostEvent(url, req, resp) ==
  [ev |-> "post", url |-> url, req |-> <<req>>, resp |-> <<resp>>, ms |-> 0]
\* a POST of _submit_post_request (its outcome is in r, and in what follows it)
QueryPost(d) == [ev |-> "post", url |-> API_URL, req |-> <<d>>, resp |-> <<>>, ms |-> 0]
\* a time.sleep: why and how long
SleepEvent(why, ms) == [ev |-> "sleep", url |-> why, req |-> <<>>, resp |-> <<>>, ms |-> ms]

\* --------------------------------------------------------------- the state
VARIABLES
  pc,            \* "idle", "post" (in _submit_post_request, before requests.post),
                 \* "posted" (_submit_post_request returned), "poll" (in the
                 \* polling loop), "returned", "raised"
  call,          \* the public call in progress (or the last one) and its arguments
  frame,         \* the function that called _submit_post_request
  queries, chunksize, time_between_chunks,  \* parameters of query_api_multiple
  keys_list, idx_chunk, df_dict,            \* locals of query_api_multiple
  json_dict, retry_num, json_data,          \* _submit_post_request
  job_id, response_format,                  \* SDJobRunner._job_id, ._response_format
  idx,                                      \* loop index of load_df_from_job_pipeline
  r,             \* the outcome of the last requests.post
  log,           \* the POSTs and sleeps of the current call, in order
  result,        \* the value returned to the caller
  exc            \* the exception raised to the caller

vars == <<pc, call, frame, queries, chunksize, time_between_chunks, keys_list,
          idx_chunk, df_dict, json_dict, retry_num, json_data, job_id,
          response_format, idx, r, log, result, exc>>

batchVars == <<queries, chunksize, time_between_chunks, keys_list, idx_chunk, df_dict>>
postVars == <<json_dict, retry_num, json_data>>
runnerVars == <<job_id, response_format>>

NoEnvelope == [token |-> "", field |-> "", items |-> <<>>]
NoBody == [success |-> FALSE, text |-> "", data |-> <<>>]
NoResponse == [kind |-> "", status |-> 0, body |-> NoBody]

Init ==
  /\ pc = "idle"
  /\ call = [fn |-> ""]
  /\ frame = ""
  /\ queries = <<>> /\ chunksize = 0 /\ time_between_chunks = None
  /\ keys_list = <<>> /\ idx_chunk = 0 /\ df_dict = <<>>
  /\ json_dict = NoEnvelope /\ retry_num = 0 /\ json_data = NoBody
  /\ job_id = PyNone                      \* __init__: self._job_id = None
  /\ response_format = PyStr("csv")      \* __init__: self._response_format = 'csv'
  /\ idx = 0
  /\ r = NoResponse
  /\ log = <<>>
  /\ result = NoResult
  /\ exc = NoExc

\* The caller starts a call when none is in progress.
Ready == pc = "idle"

Raise(e) == pc' = "raised" /\ exc' = e /\ result' = NoResult
Return(val) == pc' = "returned" /\ result' = val /\ exc' = NoExc
Running(p) == pc' = p /\ result' = NoResult /\ exc' = NoExc

ResetBatch ==
  /\ queries' = <<>> /\ chunksize' = 0 /\ time_between_chunks' = None
  /\ keys_list' = <<>> /\ idx_chunk' = 0 /\ df_dict' = <<>>
ResetPost == json_dict' = NoEnvelope /\ retry_num' = 0 /\ json_data' = NoBody

\* ------------------------------------------------------------ the service
\* What requests.post can produce: a transport exception, or a response with a
\* status code and a body.  The service follows its protocol (section 6 of the
\* specification): a 200 body is JSON with a boolean "success"; a successful
\* batch response maps every request key to its rows; no body echoes the
\* bearer token.
TransientErrors == {"ConnectionError", "Timeout"}
Transient(kind) == [kind |-> kind, status |-> 0, body |-> NoBody]
Http(status, body) == [kind |-> "http", status |-> status, body |-> body]

ServerColumns == {"year", "Year"}
ServerTexts == {"", "server error"}
ErrorBodies == {[success |-> s, text |-> t, data |-> <<>>] : s \in BOOLEAN, t \in ServerTexts}
FailureBodies == {b \in ErrorBodies : ~b.success}

Rows(col, of) == [columns |-> <<col>>, rows |-> of]
\* The body answering request envelope d: one entry of data per query sent.
SuccessBody(d, col) ==
  [success |-> TRUE, text |-> "",
   data |-> [i \in 1..Len(d.items) |-> <<d.items[i][1], Rows(col, d.items[i][2])>>]]

\* c.upper() for the column names the service uses
Upper(c) == CASE c = "year" -> "YEAR" [] c = "Year" -> "YEAR" [] OTHER -> c
\* pandas.DataFrame(v) followed by df_.columns = [c.upper() for c in df_.columns]
DataFrame(v) == [columns |-> [i \in 1..Len(v.columns) |-> Upper(v.columns[i])], rows |-> v.rows]

\* ------------------------------------------------- _submit_post_request
\* mutant of Redact: the request is attached as it was sent
Redact_Identity(d) == d
\* {**json_dict, 'token': '**********'}
Redact(d) == [d EXCEPT !.token = MASK]
\* mutant of BackoffDelay: the same delay before every retry
BackoffDelay_Constant(n) == BACKOFF_BASE_MS
\* 0.5 * (1 + retry_num), in ms
BackoffDelay(n) == BACKOFF_BASE_MS * (1 + n)
\* mutant of BudgetExhausted: the budget is one retry short
BudgetExhausted_OneShort(n) == n + 1 >= MAX_RETRIES
\* retry_num >= cc.MAX_RETRIES
BudgetExhausted(n) == n >= MAX_RETRIES

APIQueryFailed(msg, status, body, ctx) ==
  Exc("APIQueryFailedException", msg, status, body, ctx)

\* mutant of Fail: the failure is swallowed and what was gathered is returned
Fail_ReturnPartial(e) ==
  Return(Result("dict", df_dict)) /\ UNCHANGED <<batchVars, postVars>>
\* A terminal failure of _submit_post_request: the exception propagates
\* through the calling frame to the caller (no frame catches it).
Fail(e) == Raise(e) /\ UNCHANGED <<batchVars, postVars>>

\* requests.post raises ConnectionError or Timeout and retries remain:
\* sleep, then the next iteration of the loop
post_transient_retry(kind) ==
  /\ pc = "post"
  /\ ~BudgetExhausted(retry_num)
  /\ r' = Transient(kind)
  /\ log' = log \o <<QueryPost(json_dict),
                     SleepEvent("backoff", BackoffDelay(retry_num))>>
  /\ retry_num' = retry_num + 1
  /\ UNCHANGED <<pc, call, frame, batchVars, json_dict, json_data, runnerVars,
                 idx, result, exc>>

\* requests.post raises ConnectionError or Timeout on the last iteration
post_transient_exhausted(kind) ==
  /\ pc = "post"
  /\ BudgetExhausted(retry_num)
  /\ r' = Transient(kind)
  /\ log' = Append(log, QueryPost(json_dict))
  /\ Fail(APIQueryFailed(MSG_RETRIES, <<>>, <<>>, <<Redact(json_dict)>>))
  /\ UNCHANGED <<call, frame, runnerVars, idx>>

\* mutant of post_status_520: no branch of its own, 520 is reported like any
\* other status that is not 200
post_status_520_AsOther(body) ==
  /\ pc = "post"
  /\ r' = Http(520, body)
  /\ log' = Append(log, QueryPost(json_dict))
  /\ Fail(APIQueryFailed("", <<520>>, <<body>>, <<Redact(json_dict)>>))
  /\ UNCHANGED <<call, frame, runnerVars, idx>>

\* status 520
post_status_520(body) ==
  /\ pc = "post"
  /\ r' = Http(520, body)
  /\ log' = Append(log, QueryPost(json_dict))
  /\ Fail(APIQueryFailed(MSG_520, <<>>, <<>>, <<Redact(json_dict)>>))
  /\ UNCHANGED <<call, frame, runnerVars, idx>>

\* any other status that is not 200
post_status_other(status, body) ==
  /\ pc = "post"
  /\ status \notin {200, 520}
  /\ r' = Http(status, body)
  /\ log' = Append(log, QueryPost(json_dict))
  /\ Fail(APIQueryFailed("", <<status>>, <<body>>, <<Redact(json_dict)>>))
  /\ UNCHANGED <<call, frame, runnerVars, idx>>

\* mutant of post_success_false: a refused query is retried like a transport
\* error while retries remain
post_success_false_Retried(body) ==
  /\ pc = "post"
  /\ ~body.success
  /\ r' = Http(200, body)
  /\ IF BudgetExhausted(retry_num)
     THEN /\ log' = Append(log, QueryPost(json_dict))
          /\ Fail(APIQueryFailed("", <<>>, <<body>>, <<>>))
          /\ UNCHANGED <<call, frame, runnerVars, idx>>
     ELSE /\ log' = log \o <<QueryPost(json_dict),
                              SleepEvent("backoff", BackoffDelay(retry_num))>>
          /\ retry_num' = retry_num + 1
          /\ UNCHANGED <<pc, call, frame, batchVars, json_dict, json_data, runnerVars,
                         idx, result, exc>>

\* status 200, json_data['success'] false
post_success_false(body) ==
  /\ pc = "post"
  /\ ~body.success
  /\ r' = Http(200, body)
  /\ log' = Append(log, QueryPost(json_dict))
  /\ Fail(APIQueryFailed("", <<>>, <<body>>, <<>>))
  /\ UNCHANGED <<call, frame, runnerVars, idx>>

\* status 200, json_data['success'] true: return json_data
post_success(body) ==
  /\ pc = "post"
  /\ body.success
  /\ r' = Http(200, body)
  /\ log' = Append(log, QueryPost(json_dict))
  /\ json_data' = body
  /\ Running("posted")
  /\ UNCHANGED <<call, frame, batchVars, json_dict, retry_num, runnerVars, idx>>

_submit_post_request ==
  \/ \E kind \in TransientErrors : post_transient_retry(kind)
  \/ \E kind \in TransientErrors : post_transient_exhausted(kind)
  \/ \E body \in ErrorBodies : post_status_520(body)
  \/ \E body \in ErrorBodies : post_status_other(500, body)
  \/ \E body \in FailureBodies : post_success_false(body)
  \/ \E col \in ServerColumns : post_success(SuccessBody(json_dict, col))

\* ------------------------------------------------------------- SDAPIQuery
\* dict(token=get_api_token(), ...): the bearer token travels in the JSON body
Envelope(field, items) == [token |-> get_api_token, field |-> field, items |-> items]
\* dict(token=..., query=query_params.to_api_struct())
SingleEnvelope(q) == Envelope("query", << <<"0", to_api_struct(q)>> >>)
\* mutant of ChunkKeys: the slice end forgets the offset,
\* keys_list[idx_chunk:chunksize]
ChunkKeys_NoOffset(ks, i, size) == SubSeq(ks, i + 1, Min(size, Len(ks)))
\* keys_list[idx_chunk:idx_chunk + chunksize]
ChunkKeys(ks, i, size) == SubSeq(ks, i + 1, Min(i + size, Len(ks)))
\* dict(token=..., queries={k: queries[k].to_api_struct() for k in keys_chunk})
ChunkEnvelope(qs, keys_chunk) ==
  Envelope("queries",
           [i \in 1..Len(keys_chunk) |->
              <<keys_chunk[i], to_api_struct(Get(qs, keys_chunk[i]))>>])
\* mutant of Merge: each chunk's results replace the accumulated ones
Merge_Overwrite(df, data) ==
  DictUpdate(<<>>, [i \in 1..Len(data) |-> <<data[i][1], DataFrame(data[i][2])>>])
\* for k, v in json_data['data'].items(): df_dict[k] = DataFrame(v), upper-cased
Merge(df, data) ==
  DictUpdate(df, [i \in 1..Len(data) |-> <<data[i][1], DataFrame(data[i][2])>>])
\* mutant of MoreChunks: the pause is taken after every chunk
MoreChunks_Always(i, size, n) == TRUE
\* (idx_chunk + chunksize) < len(keys_list), the guard of the inter-chunk sleep
MoreChunks(i, size, n) == i + size < n
\* range(0, len(keys_list), chunksize) has a value after i
RangeHasNext(i, size, n) == i + size < n
\* isinstance(chunksize, int) and chunksize > 0
ChunksizeValid(size) == size > 0

\* the call of _submit_post_request with envelope d
Submit(d) == json_dict' = d /\ retry_num' = 0 /\ json_data' = NoBody /\ Running("post")

query_api_json_body(q) ==
  /\ frame' = "query_api_json"
  /\ ResetBatch
  /\ Submit(SingleEnvelope(q))

query_api_df_body(q) ==
  /\ frame' = "query_api_df"
  /\ ResetBatch
  /\ Submit(SingleEnvelope(q))

query_api_multiple_body(qs, size, tbc) ==
  /\ frame' = "query_api_multiple"
  /\ queries' = qs /\ chunksize' = size /\ time_between_chunks' = tbc
  /\ IF ~ChunksizeValid(size)
     THEN /\ keys_list' = <<>> /\ idx_chunk' = 0 /\ df_dict' = <<>>
          /\ ResetPost
          /\ Raise(AssertionError)
     ELSE /\ keys_list' = Keys(qs)
          /\ df_dict' = <<>>
          /\ idx_chunk' = 0
          /\ IF Len(qs) = 0
             THEN ResetPost /\ Return(Result("dict", <<>>))
             ELSE Submit(ChunkEnvelope(qs, ChunkKeys(Keys(qs), 0, size)))

\* A call starts with an empty event log (caller_resumes cleared it).
StartCall(c) ==
  /\ Ready
  /\ call' = c
  /\ idx' = 0

query_api_json(q) ==
  /\ StartCall([fn |-> "query_api_json", query_params |-> q])
  /\ query_api_json_body(q)
  /\ UNCHANGED <<runnerVars, log, r>>

query_api_df(q) ==
  /\ StartCall([fn |-> "query_api_df", query_params |-> q])
  /\ query_api_df_body(q)
  /\ UNCHANGED <<runnerVars, log, r>>

query_api_multiple(qs, size, tbc) ==
  /\ StartCall([fn |-> "query_api_multiple", queries |-> qs, chunksize |-> size,
                time_between_chunks |-> tbc])
  /\ query_api_multiple_body(qs, size, tbc)
  /\ UNCHANGED <<runnerVars, log, r>>

\* return json_data['data'][0]
query_api_json_return ==
  /\ pc = "posted" /\ frame = "query_api_json"
  /\ Return(Result("json", json_data.data[1][2]))
  /\ UNCHANGED <<call, frame, batchVars, postVars, runnerVars, idx, r, log>>

\* df_ = pandas.DataFrame(json_data['data']); upper-case the columns; return
query_api_df_return ==
  /\ pc = "posted" /\ frame = "query_api_df"
  /\ Return(Result("df", DataFrame(json_data.data[1][2])))
  /\ UNCHANGED <<call, frame, batchVars, postVars, runnerVars, idx, r, log>>

\* the rest of one iteration of the chunk loop, after _submit_post_request
\* returned: merge, pause, then the next chunk or return df_dict
query_api_multiple_merge ==
  /\ pc = "posted" /\ frame = "query_api_multiple"
  /\ df_dict' = Merge(df_dict, json_data.data)
  /\ log' = IF time_between_chunks # None
               /\ MoreChunks(idx_chunk, chunksize, Len(keys_list))
            THEN Append(log, SleepEvent("chunk", time_between_chunks[1]))
            ELSE log
  /\ IF RangeHasNext(idx_chunk, chunksize, Len(keys_list))
     THEN /\ idx_chunk' = idx_chunk + chunksize
          /\ Submit(ChunkEnvelope(queries,
                      ChunkKeys(keys_list, idx_chunk + chunksize, chunksize)))
     ELSE /\ Return(Result("dict", df_dict'))
          /\ UNCHANGED <<idx_chunk, postVars>>
  /\ UNCHANGED <<call, frame, queries, chunksize, time_between_chunks, keys_list,
                 runnerVars, idx, r>>

\* mutant of SubmitQueryValid: the assert against both arguments is missing
SubmitQueryValid_NoExclusion(qp, qsp) ==
  /\ IsNone(qp) \/ qp.t = "APIQueryParams"
  /\ IsNone(qsp) \/ qsp.t = "dict"
  /\ ~IsNone(qsp) => \A i \in 1..Len(qsp.items) : qsp.items[i][2].t = "APIQueryParams"
  /\ ~(IsNone(qp) /\ IsNone(qsp))
\* the five asserts of submit_query
SubmitQueryValid(qp, qsp) ==
  /\ IsNone(qp) \/ qp.t = "APIQueryParams"
  /\ IsNone(qsp) \/ qsp.t = "dict"
  /\ ~IsNone(qsp) => \A i \in 1..Len(qsp.items) : qsp.items[i][2].t = "APIQueryParams"
  /\ ~(IsNone(qp) /\ IsNone(qsp))
  /\ ~(~IsNone(qp) /\ ~IsNone(qsp))

submit_query(qp, qsp) ==
  /\ StartCall([fn |-> "submit_query", query_params |-> qp, queries_params |-> qsp])
  /\ UNCHANGED <<runnerVars, log, r>>
  /\ IF ~SubmitQueryValid(qp, qsp)
     THEN frame' = "" /\ ResetBatch /\ ResetPost /\ Raise(AssertionError)
     ELSE IF ~IsNone(qp)
     THEN query_api_df_body(qp)
     ELSE IF ~IsNone(qsp)
     THEN query_api_multiple_body(qsp.items, DEFAULT_CHUNKSIZE, None)
     ELSE frame' = "" /\ ResetBatch /\ ResetPost /\ Return(Result("None", PyNone))

\* ------------------------------------------------------------ caller inputs
QueryInputs == {PyQuery("q")}
QueryParamsInputs == {PyNone, PyQuery("q"), PyStr("not a query")}
QueriesParamsInputs ==
  {PyNone, PyList(<<>>), PyDict(BadDict)} \cup {PyDict(d) : d \in QueryDicts}
ChunksizeInputs == 0..MaxChunk
DelayInputs == {None, Some(2000)}

SDAPIQuery ==
  \/ Ready /\ \E q \in QueryInputs : query_api_json(q)
  \/ Ready /\ \E q \in QueryInputs : query_api_df(q)
  \/ Ready /\ \E qs \in QueryDicts, size \in ChunksizeInputs, tbc \in DelayInputs :
                query_api_multiple(qs, size, tbc)
  \/ Ready /\ \E qp \in QueryParamsInputs, qsp \in QueriesParamsInputs :
                submit_query(qp, qsp)
  \/ query_api_json_return
  \/ query_api_df_return
  \/ query_api_multiple_merge

\* ------------------------------------------------------------- SDJobRunner
\* strato_query.constants.BUFFERS_TUPLE: the allowed buffer identifiers
BUFFERS_TUPLE == {"five-minute-drive", "one-mile"}
\* the geography levels create_job accepts
GEOLEVELS == {"US", "METRO", "GEOID2", "GEOID5", "ZIP", "GEOID11"}
\* mutant of RESPONSE_FORMATS: create_job lets a third format through
RESPONSE_FORMATS_WithXml == {"csv", "json", "xml"}
RESPONSE_FORMATS == {"csv", "json"}

\* all(p(x) for x in lst.items)
AllInt(lst) == \A i \in 1..Len(lst.items) : lst.items[i].t = "int"

\* The checks create_job makes before its POST, in the order of the code: ""
\* when they all pass, or else the type of the exception raised.
CreateJobCheck(a) ==
  IF ~(a.model_id.t = "str") THEN "AssertionError"
  ELSE IF ~(IsNone(a.portfolio_id) \/ a.portfolio_id.t = "str") THEN "AssertionError"
  ELSE IF ~(IsNone(a.geolevel) \/ a.geolevel.t = "str") THEN "AssertionError"
  ELSE IF ~(a.response_format.t = "str" /\ a.response_format.v \in RESPONSE_FORMATS)
    THEN "AssertionError"
  ELSE IF ~(IsNone(a.geoid_list) \/ a.geoid_list.t = "list") THEN "AssertionError"
  ELSE IF ~(IsNone(a.geoid_list) \/ AllInt(a.geoid_list)) THEN "AssertionError"
  ELSE IF ~(IsNone(a.buffers) \/ a.buffers.t = "list") THEN "AssertionError"
  ELSE IF ~(IsNone(a.buffers)
            \/ \A i \in 1..Len(a.buffers.items) :
                 a.buffers.items[i].t = "str" /\ a.buffers.items[i].v \in BUFFERS_TUPLE)
    THEN "AssertionError"
  ELSE IF ~Truthy(a.geolevel) /\ ~Truthy(a.portfolio_id) THEN "ValueError"
  ELSE IF Truthy(a.geolevel) /\ a.geolevel.v \notin GEOLEVELS THEN "AssertionError"
  ELSE IF Truthy(a.geolevel) /\ ~IsNone(a.portfolio_id) THEN "AssertionError"
  ELSE ""

\* headers=dict(Authorization=f'Bearer {get_api_token()}'), json=...
JobRequest(json) == [auth |-> get_api_token, json |-> json]
\* the JSON body of the create request; None lists are sent as []
CreateJobJson(a) ==
  [model_id |-> a.model_id, portfolio_id |-> a.portfolio_id, geolevel |-> a.geolevel,
   response_format |-> a.response_format,
   geoid_list |-> IF IsNone(a.geoid_list) THEN PyList(<<>>) ELSE a.geoid_list,
   buffers |-> IF IsNone(a.buffers) THEN PyList(<<>>) ELSE a.buffers]

\* mutant of JobCreated: _assert_job_created checks nothing
JobCreated_Unchecked == TRUE
\* isinstance(self._job_id, str)
JobCreated == job_id.t = "str"

\* An exception of requests.post itself: the job endpoints do not catch it.
TransportExc(resp) == Exc(resp.kind, "", <<>>, <<>>, <<>>)

\* mutant of create_job_post: the response format is stored before the
\* response is looked at
create_job_post_StoresFirst(a, resp, okpc) ==
  /\ r' = resp
  /\ log' = Append(log, PostEvent(JOBS_CREATE_URL, JobRequest(CreateJobJson(a)), resp))
  /\ response_format' = a.response_format
  /\ IF resp.kind # "http"
     THEN Raise(TransportExc(resp)) /\ UNCHANGED job_id
     ELSE IF resp.body.success
     THEN /\ job_id' = PyStr(resp.body.text)
          /\ IF okpc = "returned" THEN Return(Result("None", PyNone)) ELSE Running(okpc)
     ELSE /\ Raise(APIQueryFailed(resp.body.text, <<>>, <<>>, <<>>))
          /\ UNCHANGED job_id

\* create_job once its arguments passed the checks: the POST and what follows.
\* On success the job id and the response format are stored and the caller
\* continues at `okpc`.
create_job_post(a, resp, okpc) ==
  /\ r' = resp
  /\ log' = Append(log, PostEvent(JOBS_CREATE_URL, JobRequest(CreateJobJson(a)), resp))
  /\ IF resp.kind # "http"
     THEN Raise(TransportExc(resp)) /\ UNCHANGED runnerVars
     ELSE IF resp.body.success
     THEN /\ job_id' = PyStr(resp.body.text)
          /\ response_format' = a.response_format
          /\ IF okpc = "returned" THEN Return(Result("None", PyNone)) ELSE Running(okpc)
     ELSE /\ Raise(APIQueryFailed(resp.body.text, <<>>, <<>>, <<>>))
          /\ UNCHANGED runnerVars

\* mutant of create_job_body: arguments that fail the checks reset the runner
create_job_body_ResetsOnInvalid(a, resp, okpc) ==
  IF CreateJobCheck(a) # ""
  THEN /\ Raise(Exc(CreateJobCheck(a),
                    IF CreateJobCheck(a) = "ValueError" THEN MSG_NEED_ONE ELSE "",
                    <<>>, <<>>, <<>>))
       /\ job_id' = PyNone
       /\ response_format' = PyStr("csv")
       /\ UNCHANGED <<log, r>>
  ELSE create_job_post(a, resp, okpc)

create_job_body(a, resp, okpc) ==
  IF CreateJobCheck(a) # ""
  THEN /\ Raise(Exc(CreateJobCheck(a),
                    IF CreateJobCheck(a) = "ValueError" THEN MSG_NEED_ONE ELSE "",
                    <<>>, <<>>, <<>>))
       /\ UNCHANGED <<runnerVars, log, r>>
  ELSE create_job_post(a, resp, okpc)

\* _check_job_status after _assert_job_created and the POST: the exception it
\* raises, or the status string it returns
StatusOutcome(resp) ==
  IF resp.kind # "http" THEN [ok |-> FALSE, val |-> "", exc |-> TransportExc(resp)]
  ELSE IF resp.status # 200
    THEN [ok |-> FALSE, val |-> "", exc |-> APIQueryFailed(MSG_STATUS, <<>>, <<>>, <<>>)]
  ELSE IF ~resp.body.success
    THEN [ok |-> FALSE, val |-> "", exc |-> APIQueryFailed("", <<>>, <<resp.body>>, <<>>)]
  ELSE [ok |-> TRUE, val |-> resp.body.text, exc |-> NoExc]

StatusRequest(resp) == PostEvent(JOBS_STATUS_URL, JobRequest([job_id |-> job_id]), resp)
DownloadRequest(resp) == PostEvent(JOBS_DOWNLOAD_URL, JobRequest([job_id |-> job_id]), resp)

\* download_job_to_dataframe after _assert_job_created and the POST
DownloadOutcome(resp) ==
  IF resp.kind # "http" THEN [ok |-> FALSE, val |-> NoResult, exc |-> TransportExc(resp)]
  ELSE IF resp.status # 200
    THEN [ok |-> FALSE, val |-> NoResult,
          exc |-> APIQueryFailed(MSG_DOWNLOAD, <<>>, <<>>, <<>>)]
  ELSE IF response_format.v = "csv"
    THEN [ok |-> TRUE, exc |-> NoExc,
          val |-> Result("df", [decoder |-> "read_csv", content |-> resp.body.text])]
  ELSE IF response_format.v = "json"
    THEN [ok |-> TRUE, exc |-> NoExc,
          val |-> Result("df", [decoder |-> "read_json", content |-> resp.body.text])]
  ELSE [ok |-> FALSE, val |-> NoResult,
        exc |-> Exc("NotImplementedError", response_format.v, <<>>, <<>>, <<>>)]

\* SDJobRunner.create_job
create_job(a, resp) ==
  /\ StartCall([fn |-> "create_job", args |-> a])
  /\ frame' = "create_job"
  /\ ResetBatch /\ ResetPost
  /\ create_job_body(a, resp, "returned")

\* SDJobRunner.status
status(resp) ==
  /\ StartCall([fn |-> "status"])
  /\ frame' = "_check_job_status"
  /\ ResetBatch /\ ResetPost
  /\ UNCHANGED runnerVars
  /\ IF ~JobCreated
     THEN Raise(AssertionError) /\ UNCHANGED <<log, r>>
     ELSE /\ r' = resp
          /\ log' = Append(log, StatusRequest(resp))
          /\ IF StatusOutcome(resp).ok
             THEN Return(Result("status", StatusOutcome(resp).val))
             ELSE Raise(StatusOutcome(resp).exc)

\* SDJobRunner.download_job_to_dataframe
download_job_to_dataframe(resp) ==
  /\ StartCall([fn |-> "download_job_to_dataframe"])
  /\ frame' = "download_job_to_dataframe"
  /\ ResetBatch /\ ResetPost
  /\ UNCHANGED runnerVars
  /\ IF ~JobCreated
     THEN Raise(AssertionError) /\ UNCHANGED <<log, r>>
     ELSE /\ r' = resp
          /\ log' = Append(log, DownloadRequest(resp))
          /\ IF DownloadOutcome(resp).ok
             THEN Return(DownloadOutcome(resp).val)
             ELSE Raise(DownloadOutcome(resp).exc)

\* load_df_from_job_pipeline, up to the first status poll
load_df_from_job_pipeline(a, resp) ==
  /\ StartCall([fn |-> "load_df_from_job_pipeline", args |-> a])
  /\ frame' = "load_df_from_job_pipeline"
  /\ ResetBatch /\ ResetPost
  /\ create_job_body(a, resp, "poll")

\* mutant of PollBudgetLeft: one iteration too many
PollBudgetLeft_OneMore(i) == i <= POLL_BUDGET
\* for idx in range(100)
PollBudgetLeft(i) == i < POLL_BUDGET

\* mutant of PollBranch: every status but 'Processing' counts as completed
PollBranch_DownloadUnlessProcessing(job_status) ==
  IF job_status = "Processing" THEN "sleep" ELSE "download"
\* mutant of PollBranch: every status but 'Completed' counts as still running
PollBranch_SleepUnlessCompleted(job_status) ==
  IF job_status = "Completed" THEN "download" ELSE "sleep"
\* the branch of the polling loop on job_status
PollBranch(job_status) ==
  IF job_status = "Completed" THEN "download"
  ELSE IF job_status = "Processing" THEN "sleep"
  ELSE "raise"

\* One iteration of the polling loop: job_status = self.status, then the
\* branch on it.  A 'Processing' status sleeps; when that was the last
\* iteration the loop ends and 'Job never completed successfully' is raised.
pipeline_poll(resp) ==
  /\ pc = "poll"
  /\ PollBudgetLeft(idx)
  /\ UNCHANGED <<call, frame, batchVars, postVars, runnerVars>>
  /\ IF ~JobCreated
     THEN Raise(AssertionError) /\ UNCHANGED <<log, idx, r>>
     ELSE /\ r' = resp
          /\ IF ~StatusOutcome(resp).ok
             THEN /\ log' = Append(log, StatusRequest(resp))
                  /\ Raise(StatusOutcome(resp).exc)
                  /\ UNCHANGED idx
             ELSE IF PollBranch(StatusOutcome(resp).val) = "download"
             THEN /\ log' = Append(log, StatusRequest(resp))
                  /\ Running("download")
                  /\ UNCHANGED idx
             ELSE IF PollBranch(StatusOutcome(resp).val) = "sleep"
             THEN /\ log' = log \o <<StatusRequest(resp), SleepEvent("poll", POLL_DELAY_MS)>>
                  /\ idx' = idx + 1
                  /\ IF PollBudgetLeft(idx + 1)
                     THEN Running("poll")
                     ELSE Raise(APIQueryFailed(MSG_NEVER, <<>>, <<>>, <<>>))
             ELSE /\ log' = Append(log, StatusRequest(resp))
                  /\ Raise(APIQueryFailed(MSG_JOB_FAILED, <<>>,
                                          <<[success |-> TRUE,
                                             text |-> StatusOutcome(resp).val,
                                             data |-> <<>>]>>, <<>>))
                  /\ UNCHANGED idx

\* return self.download_job_to_dataframe()
pipeline_download(resp) ==
  /\ pc = "download"
  /\ UNCHANGED <<call, frame, batchVars, postVars, runnerVars, idx>>
  /\ IF ~JobCreated
     THEN Raise(AssertionError) /\ UNCHANGED <<log, r>>
     ELSE /\ r' = resp
          /\ log' = Append(log, DownloadRequest(resp))
          /\ IF DownloadOutcome(resp).ok
             THEN Return(DownloadOutcome(resp).val)
             ELSE Raise(DownloadOutcome(resp).exc)

\* --------------------------------------------------- SDJobRunner: inputs
CreateJobInputs ==
  [model_id : {PyStr("model"), PyInt("7")},
   geolevel : {PyNone, PyStr(""), PyStr("US"), PyStr("COUNTY"), PyInt("5")},
   response_format : {PyStr("csv"), PyStr("json"), PyStr("xml")},
   portfolio_id : {PyNone, PyStr(""), PyStr("p")},
   geoid_list : {PyNone, PyList(<<PyStr("x")>>)},
   buffers : {PyNone, PyList(<<PyStr("one-mile")>>), PyList(<<PyStr("bogus")>>)}]

JobIds == {"job-1", "job-2"}
CreateResponses ==
  {Transient("ConnectionError")}
    \cup {Http(st, [success |-> TRUE, text |-> j, data |-> <<>>]) :
            st \in {200}, j \in JobIds}
    \cup {Http(st, b) : st \in {200, 500}, b \in {x \in FailureBodies : x.text # ""}}
StatusStrings == {"Completed", "Processing", "Failed", "Cancelled"}
StatusResponses ==
  {Transient("ConnectionError")}
    \cup {Http(200, [success |-> TRUE, text |-> st, data |-> <<>>]) : st \in StatusStrings}
    \cup {Http(200, b) : b \in {x \in FailureBodies : x.text # ""}}
    \cup {Http(500, b) : b \in {x \in ErrorBodies : x.text # ""}}
DownloadResponses ==
  {Transient("ConnectionError")}
    \cup {Http(st, [success |-> TRUE, text |-> "table", data |-> <<>>]) : st \in {200, 500}}

SDJobRunner ==
  \/ Ready /\ \E a \in CreateJobInputs, resp \in CreateResponses : create_job(a, resp)
  \/ Ready /\ \E resp \in StatusResponses : status(resp)
  \/ Ready /\ \E resp \in DownloadResponses : download_job_to_dataframe(resp)
  \/ Ready /\ \E a \in CreateJobInputs, resp \in CreateResponses :
                load_df_from_job_pipeline(a, resp)
  \/ \E resp \in StatusResponses : pipeline_poll(resp)
  \/ \E resp \in DownloadResponses : pipeline_download(resp)

\* The call is over: the caller has its result or its exception, and only the
\* SDJobRunner object outlives the call.
caller_resumes ==
  /\ pc \in {"returned", "raised"}
  /\ pc' = "idle"
  /\ call' = [fn |-> ""]
  /\ frame' = ""
  /\ ResetBatch /\ ResetPost
  /\ idx' = 0 /\ r' = NoResponse /\ log' = <<>>
  /\ result' = NoResult /\ exc' = NoExc
  /\ UNCHANGED runnerVars

\* ------------------------------------------------------- specifications
\* SDAPIQuery holds no state, so its calls are checked on their own ...
NextQuery ==
  \/ caller_resumes
  \/ SDAPIQuery
  \/ _submit_post_request

SpecQuery == Init /\ [][NextQuery]_vars

\* ... and so are the calls on one SDJobRunner object, in any sequence.
NextJob ==
  \/ caller_resumes
  \/ SDJobRunner

SpecJob == Init /\ [][NextJob]_vars

\* Every operation of the module.  SDAPIQuery reads and writes none of the
\* runner's fields, so its calls are explored next to a fresh runner only.
Next ==
  \/ caller_resumes
  \/ ~JobCreated /\ SDAPIQuery
  \/ SDJobRunner
  \/ _submit_post_request

Spec == Init /\ [][Next]_vars

\* ================================================================ claims
\* ------------------------------------------------ reading the event log
PostIdx(url) == {i \in 1..Len(log) : log[i].ev = "post" /\ log[i].url = url}
SleepIdx(why) == {i \in 1..Len(log) : log[i].ev = "sleep" /\ log[i].url = why}
NumPosts(url) == Cardinality(PostIdx(url))
NumSleeps(why) == Cardinality(SleepIdx(why))
\* the keys of a request envelope, in the order sent
EnvKeys(d) == [j \in 1..Len(d.items) |-> d.items[j][1]]
\* a POST that is a retry follows a backoff sleep; the others are first attempts
IsRetryPost(i) == i > 2 /\ log[i - 1].ev = "sleep" /\ log[i - 1].url = "backoff"
FirstAttemptIdx == {i \in PostIdx(API_URL) : ~IsRetryPost(i)}
\* the keys of the chunks sent so far, retries apart, in the order sent
RECURSIVE SentKeys(_)
SentKeys(i) ==
  IF i = 0 THEN <<>>
  ELSE SentKeys(i - 1) \o (IF i \in FirstAttemptIdx THEN EnvKeys(log[i].req[1]) ELSE <<>>)
Ceil(n, c) == (n + c - 1) \div c
InBatch == frame = "query_api_multiple" /\ pc # "idle" /\ chunksize >= 1

\* C1: for every chunksize >= 1 and every mapping, the chunks POSTed are
\* contiguous runs of at most chunksize keys in the mapping's iteration order
\* (what has been sent so far is a prefix of the key list, a retry resends the
\* same chunk); a batch that ran through has sent every key exactly once in
\* ceil(n / chunksize) chunks, with exactly that many POSTs when nothing was
\* retried, and none for the empty mapping.
C1_ChunksPartitionKeys ==
  InBatch =>
    LET n == Len(queries)
        sent == SentKeys(Len(log))
    IN /\ \A i \in FirstAttemptIdx :
            Len(log[i].req[1].items) \in 1..chunksize
       /\ \A i \in PostIdx(API_URL) \ FirstAttemptIdx : log[i].req = log[i - 2].req
       /\ Len(sent) <= n
       /\ sent = SubSeq(Keys(queries), 1, Len(sent))
       /\ n = 0 => NumPosts(API_URL) = 0 /\ pc = "returned"
       /\ pc = "returned" =>
            /\ sent = Keys(queries)
            /\ Cardinality(FirstAttemptIdx) = Ceil(n, chunksize)
            /\ NumPosts(API_URL) = Ceil(n, chunksize) + NumSleeps("backoff")

\* C1 witness: three keys went out in two chunks (2 + 1) without any retry
C1_Witness ==
  /\ InBatch /\ pc = "returned"
  /\ Len(queries) = 3 /\ chunksize = 2
  /\ NumSleeps("backoff") = 0
  /\ NumPosts(API_URL) = 2
  /\ Len(log[Len(log)].req[1].items) = 1

\* C1 as stated: whenever a batch call is over and nothing failed transiently,
\* every key was sent and ceil(n / chunksize) POSTs were made.  A terminal
\* failure (a non-200 status, success false) on an early chunk refutes it.
C1_AsStated ==
  (InBatch /\ pc \in {"returned", "raised"}
     /\ NumSleeps("backoff") = 0 /\ r.kind \notin TransientErrors) =>
    /\ SentKeys(Len(log)) = Keys(queries)
    /\ NumPosts(API_URL) = Ceil(Len(queries), chunksize)

\* C2: when every chunk succeeds, the returned mapping has exactly the keys of
\* the input mapping (each once), on the direct path and through submit_query.
C2_ResultKeysEqualInputKeys ==
  (frame = "query_api_multiple" /\ pc = "returned") =>
    /\ result.kind = "dict"
    /\ KeySet(result.val[1]) = KeySet(queries)
    /\ Len(result.val[1]) = Len(queries)
    /\ call.fn = "submit_query" => KeySet(result.val[1]) = KeySet(call.queries_params.items)
    /\ call.fn = "query_api_multiple" => KeySet(result.val[1]) = KeySet(call.queries)

\* C2 witness: a batch of three keys merged from three chunks
C2_Witness ==
  /\ frame = "query_api_multiple" /\ pc = "returned"
  /\ call.fn = "query_api_multiple"
  /\ Len(call.queries) = 3 /\ chunksize = 1
  /\ Len(result.val[1]) = 3

\* C3: submit_query with both arguments, or with neither, raises a usage
\* error without any POST; with exactly one (well typed) argument only the
\* matching submitter runs: every POST carries "query", or every POST carries
\* "queries".
C3_SubmitQueryExclusive ==
  call.fn = "submit_query" =>
    LET qp == call.query_params
        qsp == call.queries_params
    IN /\ (IsNone(qp) = IsNone(qsp)) =>
            /\ pc = "raised"
            /\ exc.type \in UsageErrors
            /\ log = <<>>
       /\ (~IsNone(qp) /\ IsNone(qsp) /\ qp.t = "APIQueryParams") =>
            /\ frame = "query_api_df"
            /\ \A i \in 1..Len(log) : log[i].ev = "post" => log[i].req[1].field = "query"
            /\ pc = "returned" => result.kind = "df"
       /\ (IsNone(qp) /\ qsp.t = "dict"
             /\ \A i \in 1..Len(qsp.items) : qsp.items[i][2].t = "APIQueryParams") =>
            /\ frame = "query_api_multiple"
            /\ queries = qsp.items
            /\ \A i \in 1..Len(log) : log[i].ev = "post" => log[i].req[1].field = "queries"
            /\ pc = "returned" => result.kind = "dict"

\* C3 witness: both arguments supplied, the call has raised
C3_Witness ==
  /\ call.fn = "submit_query"
  /\ call.query_params.t = "APIQueryParams"
  /\ call.queries_params.t = "dict" /\ Len(call.queries_params.items) = 2
  /\ pc = "raised"

\* --------------------------------------------- one submission's attempts
InSubmission ==
  frame \in {"query_api_json", "query_api_df", "query_api_multiple"}
    /\ pc \in {"post", "posted", "raised"}
\* the POSTs of the current submission (the envelope json_dict)
SubmissionPostIdx == {i \in PostIdx(API_URL) : log[i].req = <<json_dict>>}
SubmissionPosts == Cardinality(SubmissionPostIdx)
\* its attempts that ended in ConnectionError or Timeout
TransientFailures ==
  Cardinality({i \in SubmissionPostIdx :
                 i < Len(log) /\ log[i + 1].ev = "sleep" /\ log[i + 1].url = "backoff"})
    + (IF pc = "raised" /\ r.kind \in TransientErrors THEN 1 ELSE 0)

\* C4: one submission makes at most MAX_RETRIES + 1 POSTs; after f <= MAX_RETRIES
\* transient failures a further attempt is made, and a success response to it
\* makes the submission succeed; the submission fails with the "query timed
\* out" message exactly when MAX_RETRIES + 1 attempts failed transiently.
C4_RetryBudget ==
  InSubmission =>
    /\ SubmissionPosts <= MAX_RETRIES + 1
    /\ pc = "post" =>
         /\ retry_num <= MAX_RETRIES
         /\ SubmissionPosts = retry_num
         /\ TransientFailures = retry_num
    /\ pc = "posted" =>
         /\ r.kind = "http" /\ r.status = 200 /\ r.body.success
         /\ TransientFailures = retry_num
         /\ retry_num <= MAX_RETRIES
         /\ SubmissionPosts = retry_num + 1
    /\ (pc = "raised" /\ r.kind \in TransientErrors) =>
         /\ TransientFailures = MAX_RETRIES + 1
         /\ SubmissionPosts = MAX_RETRIES + 1
         /\ exc.type = "APIQueryFailedException"
         /\ exc.msg = MSG_RETRIES
    /\ exc.msg = MSG_RETRIES => pc = "raised" /\ r.kind \in TransientErrors

\* C4 witness: a single query succeeded on the attempt after MAX_RETRIES
\* transient failures
C4_Witness ==
  /\ frame = "query_api_df" /\ pc = "posted"
  /\ TransientFailures = MAX_RETRIES
  /\ SubmissionPosts = MAX_RETRIES + 1
  /\ json_data.success

\* the literal bearer token occurs in the args of exception e
TokenLeaked(e) ==
  \/ e.msg = TOKEN
  \/ \E i \in 1..Len(e.body) : e.body[i].text = TOKEN
  \/ \E i \in 1..Len(e.ctx) :
       \/ e.ctx[i].token = TOKEN
       \/ \E j \in 1..Len(e.ctx[i].items) : e.ctx[i].items[j][2].struct = TOKEN

\* C5: whatever makes a call fail, the exception raised to the caller does not
\* carry the literal bearer token.
C5_TokenRedacted == pc = "raised" => ~TokenLeaked(exc)

\* C5 witness: a non-200 answer to a request that held the token; the error
\* carries that request, masked
C5_Witness ==
  /\ pc = "raised"
  /\ json_dict.token = TOKEN
  /\ r.kind = "http" /\ r.status = 500
  /\ Len(exc.ctx) = 1
  /\ exc.ctx[1].items = json_dict.items
  /\ exc.ctx[1].token = MASK

\* the last outcome of requests.post ended the submission in a terminal failure
TerminalFailureSeen ==
  \/ r.kind = "http" /\ (r.status # 200 \/ ~r.body.success)
  \/ r.kind \in TransientErrors /\ SubmissionPosts = MAX_RETRIES + 1

\* C6: when a chunk's submission ends in a terminal failure the batch call
\* raises at once: the failing POST is the last event of the call (no sleep,
\* no later chunk), only the chunks up to the failing one were sent, and the
\* caller gets no result mapping.
C6_ChunkFailureAbortsBatch ==
  (InBatch /\ TerminalFailureSeen) =>
    /\ pc = "raised"
    /\ exc.type = "APIQueryFailedException"
    /\ result = NoResult
    /\ log[Len(log)].ev = "post" /\ log[Len(log)].req = <<json_dict>>
    /\ EnvKeys(json_dict)
         = SubSeq(Keys(queries), idx_chunk + 1, idx_chunk + Len(json_dict.items))
    /\ SentKeys(Len(log))
         = SubSeq(Keys(queries), 1, idx_chunk + Len(json_dict.items))

\* C6 witness: the second of three chunks failed with status 500 after the
\* first was merged and the inter-chunk pause was taken
C6_Witness ==
  /\ InBatch /\ pc = "raised"
  /\ r.kind = "http" /\ r.status = 500
  /\ Len(queries) = 3 /\ chunksize = 1 /\ idx_chunk = 1
  /\ Len(df_dict) = 1
  /\ time_between_chunks # None
  /\ NumSleeps("chunk") = 1

\* ------------------------------------------------------ SDJobRunner claims
\* The argument combinations C7 lists, with "set" read as "is not None".
ClaimedInvalid(a) ==
  \/ ~IsNone(a.geolevel) /\ ~IsNone(a.portfolio_id)
  \/ IsNone(a.geolevel) /\ IsNone(a.portfolio_id)
  \/ ~IsNone(a.geolevel) /\ ~(a.geolevel.t = "str" /\ a.geolevel.v \in GEOLEVELS)
  \/ ~(a.response_format.t = "str" /\ a.response_format.v \in RESPONSE_FORMATS)
  \/ /\ ~IsNone(a.buffers)
     /\ \E i \in 1..Len(a.buffers.items) :
          ~(a.buffers.items[i].t = "str" /\ a.buffers.items[i].v \in BUFFERS_TUPLE)

\* C7: create_job called with both geolevel and portfolio_id, with neither,
\* with a geolevel outside the allowed set, with a response_format outside
\* {csv, json} or with a buffer outside the allowed set raises a usage error,
\* POSTs nothing and leaves the job id as it was.
C7_CreateJobValidatesFirst ==
  [][(pc = "idle" /\ call'.fn = "create_job" /\ ClaimedInvalid(call'.args)) =>
       /\ pc' = "raised"
       /\ exc'.type \in UsageErrors
       /\ log' = <<>>
       /\ job_id' = job_id]_vars

\* C8: a create request answered with success stores the returned job id and
\* the requested response format, after which status and download are no
\* longer refused; answered with failure, create_job raises
\* APIQueryFailedException carrying the service's message and leaves job id
\* and response format untouched, so that a handle without a job id still has
\* none and still refuses status and download without a POST.
C8_CreateJobOutcome ==
  [][/\ (pc = "idle" /\ call'.fn \in {"create_job", "load_df_from_job_pipeline"}
           /\ r'.kind = "http") =>
          IF r'.body.success
          THEN /\ job_id' = PyStr(r'.body.text)
               /\ response_format' = call'.args.response_format
               /\ JobCreated'
               /\ pc' = (IF call'.fn = "create_job" THEN "returned" ELSE "poll")
               /\ exc' = NoExc
          ELSE /\ pc' = "raised"
               /\ exc'.type = "APIQueryFailedException"
               /\ exc'.msg = r'.body.text
               /\ job_id' = job_id
               /\ response_format' = response_format
     /\ (pc = "idle" /\ ~JobCreated
           /\ call'.fn \in {"status", "download_job_to_dataframe"}) =>
          /\ pc' = "raised"
          /\ exc'.type \in UsageErrors
          /\ log' = <<>>]_vars

\* C8 witness: the service refused to create a json job on a fresh handle,
\* which still has no job id and its initial format
C8_Witness ==
  /\ call.fn = "create_job" /\ pc = "raised"
  /\ call.args.response_format.v = "json"
  /\ r.kind = "http" /\ ~r.body.success
  /\ exc.msg = r.body.text
  /\ ~JobCreated
  /\ response_format.v = "csv"

InPipeline == call.fn = "load_df_from_job_pipeline" /\ pc # "idle"
StatusIdx == PostIdx(JOBS_STATUS_URL)
DownloadIdx == PostIdx(JOBS_DOWNLOAD_URL)
\* the status string the service gave to the poll at log[i] ("" for an error)
StatusAnswer(i) ==
  LET a == log[i].resp[1]
  IN IF a.kind = "http" /\ a.status = 200 /\ a.body.success THEN a.body.text ELSE ""
IsPollSleep(e) == e.ev = "sleep" /\ e.url = "poll" /\ e.ms = POLL_DELAY_MS

\* C9: in load_df_from_job_pipeline every 'Processing' answer is followed by
\* exactly one inter-poll delay and delays occur nowhere else; a download is
\* issued only immediately after a poll answered 'Completed', at most once,
\* as the last request of the run, and the run's outcome is the download's.
\* So against k < 100 'Processing' answers and then 'Completed' the run makes
\* k + 1 polls, k delays and one download.
C9_PollsThenDownload ==
  InPipeline =>
    /\ \A i \in StatusIdx :
         StatusAnswer(i) = "Processing" => (i < Len(log) /\ IsPollSleep(log[i + 1]))
    /\ \A i \in SleepIdx("poll") :
         /\ IsPollSleep(log[i])
         /\ i - 1 \in StatusIdx /\ StatusAnswer(i - 1) = "Processing"
    /\ \A i \in DownloadIdx :
         /\ i = Len(log)
         /\ i - 1 \in StatusIdx /\ StatusAnswer(i - 1) = "Completed"
    /\ \A i \in StatusIdx :
         StatusAnswer(i) = "Completed" =>
           /\ \A j \in StatusIdx : j < i => StatusAnswer(j) = "Processing"
           /\ \A j \in StatusIdx : j <= i
           /\ NumPosts(JOBS_STATUS_URL) = NumSleeps("poll") + 1
           /\ NumSleeps("poll") < POLL_BUDGET
           /\ pc \in {"download", "returned", "raised"}
           /\ pc = "download" <=> i = Len(log)
           /\ pc # "download" => DownloadIdx = {i + 1}
    /\ pc = "download" => StatusAnswer(Len(log)) = "Completed"
    /\ pc = "returned" =>
         /\ DownloadIdx = {Len(log)}
         /\ result.kind = "df"
         /\ result.val[1].content = log[Len(log)].resp[1].body.text
         /\ result.val[1].decoder
              = (IF call.args.response_format.v = "csv" THEN "read_csv" ELSE "read_json")

\* C9 witness: 99 'Processing' answers, then 'Completed' on the 100th poll, then
\* the download returned
C9_Witness ==
  /\ InPipeline /\ pc = "returned"
  /\ NumSleeps("poll") = POLL_BUDGET - 1
  /\ NumPosts(JOBS_STATUS_URL) = POLL_BUDGET
  /\ NumPosts(JOBS_DOWNLOAD_URL) = 1

AllProcessing == \A i \in StatusIdx : StatusAnswer(i) = "Processing"

\* C10: load_df_from_job_pipeline never makes more than 100 status polls; when
\* 100 polls were all answered 'Processing' it raises 'Job never completed
\* successfully' without any download, and it raises that error in no other
\* case.
C10_PollBudget ==
  InPipeline =>
    /\ NumPosts(JOBS_STATUS_URL) <= POLL_BUDGET
    /\ pc = "poll" => NumPosts(JOBS_STATUS_URL) < POLL_BUDGET
    /\ (NumPosts(JOBS_STATUS_URL) = POLL_BUDGET /\ AllProcessing) =>
         /\ pc = "raised"
         /\ exc.type = "APIQueryFailedException"
         /\ exc.msg = MSG_NEVER
         /\ DownloadIdx = {}
    /\ exc.msg = MSG_NEVER =>
         /\ pc = "raised"
         /\ NumPosts(JOBS_STATUS_URL) = POLL_BUDGET
         /\ AllProcessing
         /\ DownloadIdx = {}

\* C10 witness: the budget ran out after 100 'Processing' answers
C10_Witness ==
  /\ InPipeline /\ pc = "raised"
  /\ exc.msg = MSG_NEVER
  /\ NumPosts(JOBS_STATUS_URL) = POLL_BUDGET
  /\ AllProcessing
  /\ NumPosts(JOBS_DOWNLOAD_URL) = 0

\* the status strings the polling loop takes for a failed job
IsFailedStatus(s) == s \notin {"", "Completed", "Processing"}

\* C11: in load_df_from_job_pipeline a status string that is neither
\* 'Completed' nor 'Processing' ends the run at once: its poll is the last
\* event of the run (no later poll, no delay after it, no download at all),
\* every earlier poll was answered 'Processing', and the run raises
\* APIQueryFailedException('Job failed', <that status string>); 'Job failed' is
\* raised in no other case.
C11_OtherStatusFailsAtOnce ==
  InPipeline =>
    /\ \A i \in StatusIdx :
         IsFailedStatus(StatusAnswer(i)) =>
           /\ i = Len(log)
           /\ \A j \in StatusIdx : j < i => StatusAnswer(j) = "Processing"
           /\ NumSleeps("poll") = NumPosts(JOBS_STATUS_URL) - 1
           /\ DownloadIdx = {}
           /\ pc = "raised"
           /\ exc.type = "APIQueryFailedException"
           /\ exc.msg = MSG_JOB_FAILED
           /\ Len(exc.body) = 1 /\ exc.body[1].text = StatusAnswer(i)
    /\ exc.msg = MSG_JOB_FAILED =>
         /\ Len(log) \in StatusIdx
         /\ IsFailedStatus(StatusAnswer(Len(log)))

\* C11 witness: two 'Processing' answers, then 'Cancelled' on the third poll
C11_Witness ==
  /\ InPipeline /\ pc = "raised"
  /\ NumPosts(JOBS_STATUS_URL) = 3
  /\ NumSleeps("poll") = 2
  /\ StatusAnswer(Len(log)) = "Cancelled"
  /\ exc.msg = MSG_JOB_FAILED
  /\ exc.body[1].text = "Cancelled"

\* C12: on a runner that holds no job id, the status property and
\* download_job_to_dataframe raise a usage error (the AssertionError of
\* _assert_job_created) and POST nothing.
C12_NoJobNoRequest ==
  (call.fn \in {"status", "download_job_to_dataframe"} /\ job_id.t # "str") =>
    /\ pc = "raised"
    /\ exc.type \in UsageErrors
    /\ result = NoResult
    /\ log = <<>>
    /\ r = NoResponse

\* C12 witness: download_job_to_dataframe called on a runner without a job id
\* raised the AssertionError, with nothing POSTed
C12_Witness ==
  /\ call.fn = "download_job_to_dataframe"
  /\ pc = "raised"
  /\ job_id = PyNone
  /\ exc = AssertionError
  /\ log = <<>>

\* ------------------------------------------- _submit_post_request claims
\* C13: a response with status 520 ends the submission at once with
\* APIQueryFailedException carrying the fixed "Query has timed out ... too
\* much data" message and the masked request, and nothing of the response
\* (neither its status nor its body); the POST answered 520 is the last event,
\* so it is not retried.  The fixed message is raised for status 520 only.
C13_Status520FixedMessage ==
  InSubmission =>
    /\ (r.kind = "http" /\ r.status = 520) =>
         /\ pc = "raised"
         /\ exc.type = "APIQueryFailedException"
         /\ exc.msg = MSG_520
         /\ exc.status = <<>> /\ exc.body = <<>>
         /\ Len(exc.ctx) = 1 /\ exc.ctx[1].items = json_dict.items
         /\ result = NoResult
         /\ log[Len(log)] = QueryPost(json_dict)
         /\ SubmissionPosts = retry_num + 1
    /\ exc.msg = MSG_520 => (r.kind = "http" /\ r.status = 520)

\* C13 witness: after one transient failure the retry was answered 520 with a
\* body that says success and carries a text of its own
C13_Witness ==
  /\ InSubmission /\ pc = "raised"
  /\ r.kind = "http" /\ r.status = 520
  /\ r.body.success /\ r.body.text = "server error"
  /\ retry_num = 1
  /\ exc.msg = MSG_520

\* the attempt that set r got a response which is not a success
Refused(resp) == resp.kind = "http" /\ (resp.status # 200 \/ ~resp.body.success)

\* C14: an attempt of _submit_post_request answered with a non-200 status or
\* with a 200 body whose success flag is false raises to the caller in that
\* very step: only the POST is added to the event log (no sleep), the retry
\* counter is left as it was, and what is raised carries the response (the
\* status and body, or the body; for 520 the fixed message).  An attempt is
\* followed by a backoff sleep and a further attempt only when requests.post
\* raised ConnectionError or Timeout.
C14_OnlyTransientRetried ==
  [][pc = "post" =>
       /\ Refused(r') =>
            /\ pc' = "raised"
            /\ log' = Append(log, QueryPost(json_dict))
            /\ retry_num' = retry_num
            /\ result' = NoResult
            /\ exc'.type = "APIQueryFailedException"
            /\ r'.status = 520 => exc'.msg = MSG_520
            /\ r'.status \notin {200, 520} =>
                 exc'.status = <<r'.status>> /\ exc'.body = <<r'.body>>
            /\ r'.status = 200 => exc'.body = <<r'.body>>
       /\ (pc' = "post" \/ Len(log') > Len(log) + 1) =>
            /\ r'.kind \in TransientErrors
            /\ retry_num < MAX_RETRIES]_vars

\* C14 witness: a success-false body on the third attempt, with one retry
\* left, ended the submission
C14_Witness ==
  /\ InSubmission /\ pc = "raised"
  /\ r.kind = "http" /\ r.status = 200 /\ ~r.body.success
  /\ retry_num = MAX_RETRIES - 1
  /\ SubmissionPosts = MAX_RETRIES
  /\ log[Len(log)].ev = "post"
  /\ exc.body = <<r.body>>

BackoffIdx == SleepIdx("backoff")
\* the number of the attempt whose transient failure the sleep at log[i]
\* follows: the earlier backoff sleeps of the same submission
AttemptOf(i) == Cardinality({j \in BackoffIdx : j < i /\ log[j - 1].req = log[i - 1].req})
\* the POSTs that resend a request already sent
RetryIdx ==
  {i \in PostIdx(API_URL) : \E j \in PostIdx(API_URL) : j < i /\ log[j].req = log[i].req}

\* C15: every backoff sleep directly follows an attempt, numbered i in
\* 0..MAX_RETRIES-1 within its submission, lasts 500 ms * (1 + i), and is
\* directly followed by the retry (or the retry is the next thing to happen);
\* every retry is directly preceded by exactly one backoff sleep; when the
\* budget is exhausted the last event is the failed POST, not a sleep, and the
\* submission slept MAX_RETRIES times.
C15_LinearBackoff ==
  InSubmission =>
    /\ \A i \in BackoffIdx :
         /\ i > 1 /\ log[i - 1].ev = "post"
         /\ AttemptOf(i) \in 0..(MAX_RETRIES - 1)
         /\ log[i].ms = BACKOFF_BASE_MS * (1 + AttemptOf(i))
         /\ IF i < Len(log)
            THEN log[i + 1].ev = "post" /\ log[i + 1].req = log[i - 1].req
            ELSE pc = "post" /\ log[i - 1].req = <<json_dict>>
    /\ \A i \in RetryIdx :
         /\ i - 1 \in BackoffIdx
         /\ log[i - 2].ev = "post" /\ log[i - 2].req = log[i].req
    /\ Cardinality({i \in BackoffIdx : log[i - 1].req = <<json_dict>>}) = retry_num
    /\ exc.msg = MSG_RETRIES =>
         /\ log[Len(log)].ev = "post"
         /\ retry_num = MAX_RETRIES
         /\ SubmissionPosts = MAX_RETRIES + 1

\* C15 witness: the budget was exhausted after sleeps of 500, 1000 and 1500 ms
C15_Witness ==
  /\ InSubmission /\ pc = "raised" /\ exc.msg = MSG_RETRIES
  /\ frame = "query_api_df"
  /\ Len(log) = 7
  /\ log[2].ms = 500 /\ log[4].ms = 1000 /\ log[6].ms = 1500
  /\ log[7].ev = "post"

ChunkSleepIdx == SleepIdx("chunk")

\* C16: in query_api_multiple, with time_between_chunks unset no inter-chunk
\* pause occurs; with it set, one pause of that duration has been taken for
\* each chunk completed before the current one, each directly after a chunk's
\* successful POST and directly before the first POST of the next chunk, so a
\* batch that returned after c >= 1 chunks took exactly c - 1 pauses and none
\* after its final chunk.
C16_PauseBetweenChunks ==
  InBatch =>
    /\ time_between_chunks = None => ChunkSleepIdx = {}
    /\ time_between_chunks # None =>
         Cardinality(ChunkSleepIdx) = idx_chunk \div chunksize
    /\ \A i \in ChunkSleepIdx :
         /\ log[i].ms = time_between_chunks[1]
         /\ i > 1 /\ log[i - 1].ev = "post"
         /\ IF i < Len(log)
            THEN /\ log[i + 1].ev = "post"
                 /\ log[i + 1].req # log[i - 1].req
                 /\ i + 1 \in FirstAttemptIdx
            ELSE pc = "post" /\ retry_num = 0
    /\ pc = "returned" =>
         /\ Len(log) > 0 => log[Len(log)].ev = "post"
         /\ Cardinality(ChunkSleepIdx) =
              (IF time_between_chunks # None /\ Len(keys_list) > 0
               THEN Ceil(Len(keys_list), chunksize) - 1 ELSE 0)

\* C16 witness: three keys in chunks of one, with a pause set: the batch
\* returned after three chunks and two pauses
C16_Witness ==
  /\ InBatch /\ pc = "returned"
  /\ Len(keys_list) = 3 /\ chunksize = 1
  /\ time_between_chunks = Some(2000)
  /\ Cardinality(ChunkSleepIdx) = 2
  /\ Len(df_dict) = 3

\* ------------------------------------------- SDJobRunner: the stored fields
\* C17: once a job id has been stored on an SDJobRunner, no later create_job,
\* status, download or load_df_from_job_pipeline call changes it.
C17_JobIdSetOnce == [][JobCreated => job_id' = job_id]_vars

\* the step is a call of create_job (alone or as the first statement of
\* load_df_from_job_pipeline)
CreateStep == pc = "idle" /\ call'.fn \in {"create_job", "load_df_from_job_pipeline"}
\* the step added a download request that was answered with status 200
DownloadedStep ==
  /\ Len(log') = Len(log) + 1
  /\ log'[Len(log')].url = JOBS_DOWNLOAD_URL
  /\ log'[Len(log')].resp[1].kind = "http"
  /\ log'[Len(log')].resp[1].status = 200

\* C18: the stored response format is 'csv' or 'json' in every state; it
\* changes only in a create_job answered with success, to the format that
\* call was given (which passed the check); a download answered 200 decodes
\* with read_csv or read_json according to the stored format, and
\* NotImplementedError is never raised.
C18_StoredFormatValid ==
  [][/\ response_format.t = "str" /\ response_format.v \in {"csv", "json"}
     /\ response_format'.t = "str" /\ response_format'.v \in {"csv", "json"}
     /\ response_format' # response_format =>
          /\ CreateStep
          /\ r'.kind = "http" /\ r'.body.success
          /\ response_format' = call'.args.response_format
     /\ (CreateStep /\ JobCreated' /\ pc' # "raised") =>
          response_format' = call'.args.response_format
     /\ exc'.type # "NotImplementedError"
     /\ DownloadedStep =>
          /\ pc' = "returned"
          /\ result'.kind = "df"
          /\ result'.val[1].decoder
               = (IF response_format.v = "csv" THEN "read_csv" ELSE "read_json")]_vars

\* C18 witness: a download on a runner whose job was created with 'json'
\* returned a table decoded with read_json
C18_Witness ==
  /\ call.fn = "download_job_to_dataframe" /\ pc = "returned"
  /\ JobCreated
  /\ response_format = PyStr("json")
  /\ result.kind = "df" /\ result.val[1].decoder = "read_json"

\* C19: in load_df_from_job_pipeline every inter-poll delay is followed by
\* another status poll (or that poll is the next thing to happen), also in the
\* run that exhausts the poll budget, so a run that ended slept at most once
\* less than it polled.
C19_DelayOnlyBetweenPolls ==
  InPipeline =>
    /\ \A i \in SleepIdx("poll") :
         IF i < Len(log) THEN i + 1 \in StatusIdx ELSE pc = "poll"
    /\ pc \in {"returned", "raised"} /\ StatusIdx # {} =>
         NumSleeps("poll") <= NumPosts(JOBS_STATUS_URL) - 1

\* C20: a create_job call that raises, at the argument checks or on the
\* service's answer (or on a transport error), leaves job id and response
\* format as they were, and so does the caller's resuming; a status or
\* download call on a runner that holds a job sends that job's id, leaves
\* both fields alone, and the download decodes by the stored format.
C20_FailedCreateKeepsJob ==
  [][/\ (CreateStep /\ pc' = "raised") =>
          job_id' = job_id /\ response_format' = response_format
     /\ pc' = "idle" => job_id' = job_id /\ response_format' = response_format
     /\ (pc = "idle" /\ JobCreated
           /\ call'.fn \in {"status", "download_job_to_dataframe"}) =>
          /\ Len(log') = 1
          /\ log'[1].url = (IF call'.fn = "status" THEN JOBS_STATUS_URL
                            ELSE JOBS_DOWNLOAD_URL)
          /\ log'[1].req[1].json.job_id = job_id
          /\ job_id' = job_id /\ response_format' = response_format
          /\ pc' = "returned" /\ call'.fn = "download_job_to_dataframe" =>
               result'.val[1].decoder
                 = (IF response_format.v = "csv" THEN "read_csv" ELSE "read_json")]_vars

\* C20 witness: on a runner holding job-1 created with 'json', a create_job
\* for 'csv' was refused by the service; job-1 and 'json' are still stored
C20_Witness ==
  /\ call.fn = "create_job" /\ pc = "raised"
  /\ call.args.response_format = PyStr("csv")
  /\ r.kind = "http" /\ ~r.body.success
  /\ exc.type = "APIQueryFailedException"
  /\ job_id = PyStr("job-1")
  /\ response_format = PyStr("json")

====
